---- MODULE Spec2Model ----
(***************************************************************************)
(* Model of the itinerary worker: the POST /api handler, the background    *)
(* task generateItineraryAsync with retryWithBackoff, and the Firestore    *)
(* documents the worker writes.  JavaScript values are tagged records.     *)
(***************************************************************************)
EXTENDS Integers, Sequences, FiniteSets, TLC

\* Number of requests the worker receives in a behaviour.
MaxReqs == 1

\* retryWithBackoff(fn, retries = 3, delay = 500)
DefaultRetries == 3

DefaultDelay == 500

(***************************************************************************)
(* JavaScript / JSON values                                                *)
(***************************************************************************)
Undef == [t |-> "undefined"]

Null == [t |-> "null"]

NaN == [t |-> "nan"]

Str(x) == [t |-> "string", s |-> x]

\* The number n, or n + 0.5 when half is TRUE (a non-integer).
Num(x) == [t |-> "number", n |-> x, half |-> FALSE]

Half(x) == [t |-> "number", n |-> x, half |-> TRUE]

Bool(x) == [t |-> "boolean", b |-> x]

Arr(xs) == [t |-> "array", items |-> xs]

Obj(fs) == [t |-> "object", fields |-> fs]

\* obj.key for a parsed JSON value (undefined for a missing key and for the
\* properties of primitives and arrays the handler reads).
Get(v, key) ==
    IF v.t = "object" /\ key \in DOMAIN v.fields THEN v.fields[key] ELSE Undef

\* !v is true for these values.
Falsy(v) ==
    \/ v.t \in {"undefined", "null", "nan"}
    \/ v.t = "string" /\ v.s = ""
    \/ v.t = "number" /\ v.n = 0 /\ ~v.half
    \/ v.t = "boolean" /\ ~v.b

\* Number(s) for the strings the requests carry.
StringToNumber(s) ==
    CASE s = "" -> Num(0)
      [] s = "3" -> Num(3)
      [] s = "-1" -> Num(0 - 1)
      [] OTHER -> NaN

\* The numeric conversion a relational comparison applies to its operand.
ToNumber(v) ==
    CASE v.t = "number" -> v
      [] v.t = "string" -> StringToNumber(v.s)
      [] v.t = "boolean" -> IF v.b THEN Num(1) ELSE Num(0)
      [] v.t = "null" -> Num(0)
      [] OTHER -> NaN

\* v <= 0 (false when the operand converts to NaN).
LeqZero(v) ==
    LET x == ToNumber(v)
    IN  x.t = "number" /\ (IF x.half THEN x.n < 0 ELSE x.n <= 0)

(***************************************************************************)
(* Firestore documents                                                     *)
(***************************************************************************)
RECURSIVE formatFirestoreFields(_)

\* An array element, as the inner map of formatFirestoreFields converts it.
FormatArrayItem(v) ==
    CASE v.t = "object" -> [mapValue |-> formatFirestoreFields(v.fields)]
      [] v.t = "array" -> [mapValue |-> formatFirestoreFields(
                              [i \in DOMAIN v.items |-> v.items[i]])]
      [] v.t = "string" -> [stringValue |-> v.s]
      [] v.t = "number" -> [integerValue |-> v]
      [] v.t = "boolean" -> [booleanValue |-> v.b]
      [] v.t = "null" -> [nullValue |-> "null"]
      [] OTHER -> [stringValue |-> "undefined"]

\* One field's value; undefined values match no branch and are left out.
FormatValue(v) ==
    CASE v.t = "string" -> [stringValue |-> v.s]
      [] v.t = "number" -> [integerValue |-> v]
      [] v.t = "boolean" -> [booleanValue |-> v.b]
      [] v.t = "null" -> [nullValue |-> "null"]
      [] v.t = "array" ->
            [arrayValue |-> [i \in DOMAIN v.items |-> FormatArrayItem(v.items[i])]]
      [] v.t = "object" -> [mapValue |-> formatFirestoreFields(v.fields)]

formatFirestoreFields(obj) ==
    LET keys == {k \in DOMAIN obj : obj[k].t \in
                    {"string", "number", "boolean", "null", "array", "object"}}
    IN  [k \in keys |-> FormatValue(obj[k])]

\* No document under itineraries/<jobId>.
NoDoc == [missing |-> TRUE]

\* PATCH .../documents/itineraries/<jobId> with body {fields} and no
\* updateMask: the document's fields become the request's fields.
PatchDocument(old, fields) == [fields |-> fields]

\* A document field is present and not the null value.
FieldSet(d, k) ==
    /\ d # NoDoc
    /\ k \in DOMAIN d.fields
    /\ "nullValue" \notin DOMAIN d.fields[k]

\* The status string of a document ("" when there is none).
DocStatus(d) ==
    IF d # NoDoc /\ "status" \in DOMAIN d.fields
       /\ "stringValue" \in DOMAIN d.fields["status"]
    THEN d.fields["status"].stringValue ELSE ""

\* new Date().toISOString()
Timestamp == Str("iso-8601")

(***************************************************************************)
(* itinerarySchema (zod)                                                   *)
(***************************************************************************)
IsInt(v) == v.t = "number" /\ ~v.half

\* A schema whose string fields accept any value.
StringIssueNone(v, path) == <<>>

\* z.string(): the issue path when v is not a string.
StringIssue(v, path) == IF v.t = "string" THEN <<>> ELSE <<path>>

\* z.object({time, description, location}) on one activity.
ActivityIssues(a, path) ==
    IF a.t # "object" THEN <<path>>
    ELSE StringIssue(Get(a, "time"), path \o ".time")
         \o StringIssue(Get(a, "description"), path \o ".description")
         \o StringIssue(Get(a, "location"), path \o ".location")

RECURSIVE ActivitiesIssues(_, _, _)

\* z.array(activity): the issues of items i.. of the array.
ActivitiesIssues(items, i, path) ==
    IF i > Len(items) THEN <<>>
    ELSE ActivityIssues(items[i], path \o "." \o ToString(i - 1))
         \o ActivitiesIssues(items, i + 1, path)

\* z.object({day, theme, activities}) on one day.
DayIssues(d, path) ==
    IF d.t # "object" THEN <<path>>
    ELSE (IF IsInt(Get(d, "day")) THEN <<>> ELSE <<path \o ".day">>)
         \o StringIssue(Get(d, "theme"), path \o ".theme")
         \o (IF Get(d, "activities").t = "array"
             THEN ActivitiesIssues(Get(d, "activities").items, 1, path \o ".activities")
             ELSE <<path \o ".activities">>)

RECURSIVE DaysIssues(_, _, _)

DaysIssues(items, i, path) ==
    IF i > Len(items) THEN <<>>
    ELSE DayIssues(items[i], path \o "." \o ToString(i - 1))
         \o DaysIssues(items, i + 1, path)

\* Every violation of itinerarySchema in v, by path.
SchemaIssues(v) ==
    IF v.t # "object" THEN <<"(root)">>
    ELSE IF Get(v, "itinerary").t = "array"
         THEN DaysIssues(Get(v, "itinerary").items, 1, "itinerary")
         ELSE <<"itinerary">>

\* zod objects drop the keys the schema does not name.
StripActivity(a) ==
    Obj([time |-> Get(a, "time"), description |-> Get(a, "description"),
         location |-> Get(a, "location")])

StripDay(d) ==
    Obj([day |-> Get(d, "day"), theme |-> Get(d, "theme"),
         activities |-> Arr([i \in DOMAIN Get(d, "activities").items |->
                               StripActivity(Get(d, "activities").items[i])])])

RECURSIVE JoinIssues(_)

\* validation.error.message: all the issues in one string.
JoinIssues(issues) ==
    IF issues = <<>> THEN ""
    ELSE "[" \o Head(issues) \o "]" \o JoinIssues(Tail(issues))

\* itinerarySchema.safeParse(v)
safeParse(v) ==
    LET issues == SchemaIssues(v)
    IN  IF issues = <<>>
        THEN [success |-> TRUE,
              data |-> Obj([itinerary |->
                        Arr([i \in DOMAIN Get(v, "itinerary").items |->
                               StripDay(Get(v, "itinerary").items[i])])])]
        ELSE [success |-> FALSE, message |-> JoinIssues(issues)]

(***************************************************************************)
(* The generation response and its post-processing                         *)
(***************************************************************************)
\* Response texts are sequences of lines; "<fence>" stands for the three
\* backticks, so these are the lines that start with them.
FenceLines == {"<fence>", "<fence>json"}

RECURSIVE TrimStart(_)

TrimStart(lines) ==
    IF lines # <<>> /\ Head(lines) = "" THEN TrimStart(Tail(lines)) ELSE lines

RECURSIVE TrimEnd(_)

TrimEnd(lines) ==
    IF lines # <<>> /\ lines[Len(lines)] = ""
    THEN TrimEnd(SubSeq(lines, 1, Len(lines) - 1)) ELSE lines

\* text.trim(): blank lines at either end go.
Trim(lines) == TrimEnd(TrimStart(lines))

\* A fence removal that forgets lines.pop(): the closing fence stays.
StripFencesKeepLast(rawText) ==
    IF rawText # <<>> /\ Head(rawText) \in FenceLines
    THEN IF Len(rawText) >= 3
         THEN Trim(SubSeq(rawText, 2, Len(rawText)))
         ELSE rawText
    ELSE rawText

\* The fence removal of generateItineraryAsync on the trimmed text.
StripFences(rawText) ==
    IF rawText # <<>> /\ Head(rawText) \in FenceLines
    THEN IF Len(rawText) >= 3
         THEN Trim(SubSeq(rawText, 2, Len(rawText) - 1))
         ELSE rawText
    ELSE rawText

SampleActivity ==
    Obj([time |-> Str("10:00 AM"), description |-> Str("Visit the Eiffel Tower"),
         location |-> Str("Champ de Mars, Paris")])

SampleDay ==
    Obj([day |-> Num(1), theme |-> Str("Arrival"),
         activities |-> Arr(<<SampleActivity>>)])

\* A day whose theme is a number: the schema rejects it.
BadThemeDay ==
    Obj([day |-> Num(1), theme |-> Num(7), activities |-> Arr(<<>>)])

\* A day of the right types and nothing more: day 0, empty strings, and an
\* activity with a key the schema does not name.
LooseDay ==
    Obj([day |-> Num(0), theme |-> Str(""),
         activities |-> Arr(<<Obj([time |-> Str(""), description |-> Str(""),
                                   location |-> Str(""), cost |-> Num(5)])>>)])

\* The JSON documents the generation capability answers with, by their text.
JsonDocs ==
    [valid |-> Obj([itinerary |-> Arr(<<SampleDay>>), note |-> Str("extra")]),
     nokey |-> Obj([days |-> Arr(<<SampleDay>>)]),
     badtheme |-> Obj([itinerary |-> Arr(<<BadThemeDay>>)]),
     loose |-> Obj([itinerary |-> Arr(<<LooseDay>>)])]

\* JSON.parse(text): the document, or a SyntaxError.  White space around
\* the document is skipped.
JSONparse(text) ==
    LET json == Trim(text)
    IN  IF Len(json) = 1 /\ json[1] \in DOMAIN JsonDocs
        THEN [ok |-> TRUE, value |-> JsonDocs[json[1]]]
        ELSE [ok |-> FALSE, message |-> "Unexpected token in JSON"]

\* Gemini failed: ${response.status}
GeminiFailed(status) == "Gemini failed: " \o ToString(status)

ValidationError(message) == "Validation error: " \o message

\* A task that writes what JSON.parse returned without validating it.
ProcessResponseUnvalidated(response) ==
    IF ~response.ok
    THEN [ok |-> FALSE, stage |-> "status", message |-> GeminiFailed(response.status)]
    ELSE IF response.body.kind = "notjson"
    THEN [ok |-> FALSE, stage |-> "body", message |-> "Unexpected end of JSON input"]
    ELSE IF response.body.kind = "nocandidates"
    THEN [ok |-> FALSE, stage |-> "body",
          message |-> "Cannot read properties of undefined (reading 0)"]
    ELSE LET rawText == StripFences(Trim(response.body.lines))
             generated == JSONparse(rawText)
         IN  IF ~generated.ok
             THEN [ok |-> FALSE, stage |-> "parse", message |-> generated.message]
             ELSE [ok |-> TRUE, generated |-> generated.value,
                   itinerary |-> Get(generated.value, "itinerary")]

\* generateItineraryAsync from the returned response to the decision between
\* the completed write and the catch block (lines 694-718).  generated is
\* what JSON.parse returned (line 713).
ProcessResponse(response) ==
    IF ~response.ok
    THEN [ok |-> FALSE, stage |-> "status", message |-> GeminiFailed(response.status)]
    ELSE IF response.body.kind = "notjson"
    THEN [ok |-> FALSE, stage |-> "body", message |-> "Unexpected end of JSON input"]
    ELSE IF response.body.kind = "nocandidates"
    THEN [ok |-> FALSE, stage |-> "body",
          message |-> "Cannot read properties of undefined (reading 0)"]
    ELSE LET rawText == StripFences(Trim(response.body.lines))
             generated == JSONparse(rawText)
         IN  IF ~generated.ok
             THEN [ok |-> FALSE, stage |-> "parse", message |-> generated.message]
             ELSE LET validation == safeParse(generated.value)
                  IN  IF ~validation.success
                      THEN [ok |-> FALSE, stage |-> "validation",
                            message |-> ValidationError(validation.message)]
                      ELSE [ok |-> TRUE, generated |-> generated.value,
                            itinerary |-> Get(validation.data, "itinerary")]

\* What one fetch of the generation capability can end in.
NetworkErrors == {"network timeout", "connection reset"}

ResponseBodies ==
    {[kind |-> "notjson"], [kind |-> "nocandidates"]}
    \cup {[kind |-> "text", lines |-> l] :
            l \in {<<"valid">>, <<"<fence>json", "valid", "<fence>">>, <<"nokey">>,
                   <<"badtheme">>, <<"loose">>, <<"Sorry, I cannot help">>}}

GeminiOutcomes ==
    {[kind |-> "reject", message |-> m] : m \in NetworkErrors}
    \cup {[kind |-> "response", ok |-> FALSE, status |-> 503, body |-> [kind |-> "notjson"]]}
    \cup {[kind |-> "response", ok |-> TRUE, status |-> 200, body |-> b] :
            b \in ResponseBodies}

\* What one call of writeToFirestore can end in: whether the PATCH was applied
\* to the document, and the message of the error thrown ("" for a normal
\* return).  The last is a request the server applied whose response was not
\* read (fetch or res.text() rejects after the commit).
StoreOutcomes ==
    {[applied |-> TRUE, thrown |-> ""],
     [applied |-> FALSE, thrown |-> "Firestore error: 503 - unavailable"],
     [applied |-> TRUE, thrown |-> "network connection lost"]}

(***************************************************************************)
(* Requests and responses of the fetch handler                             *)
(***************************************************************************)
PostApi(body) == [method |-> "POST", path |-> "/api", body |-> body]

\* req.json() of a body that is JSON.
Json(v) == [parsed |-> TRUE, value |-> v]

\* A body req.json() rejects.
NotJson == [parsed |-> FALSE]

Paris == Str("Paris, France")

Requests ==
    {[method |-> "GET", path |-> "/", body |-> NotJson],
     [method |-> "GET", path |-> "/api", body |-> NotJson],
     PostApi(NotJson), PostApi(Json(Null)), PostApi(Json(Num(5)))}
    \cup {PostApi(Json(Obj([destination |-> d, durationDays |-> n]))) :
            d \in {Paris, Str(""), Num(7)},
            n \in {Num(3), Num(0), Num(0 - 1), Str("3"), Str("-1"), Null}}
    \cup {PostApi(Json(Obj([destination |-> Paris]))),
          PostApi(Json(Obj([durationDays |-> Num(3)])))}

JsonResponse(status, body) == [status |-> status, body |-> body]

\* No response has been returned.
NoResponse == [status |-> 0]

\* The condition of line 759 under which the handler answers 400.
InvalidCreation(destination, durationDays) ==
    \/ Falsy(destination)
    \/ destination.t # "string"
    \/ Falsy(durationDays)
    \/ LeqZero(durationDays)

\* The handler from its entry to its first return, throw, or call of
\* writeToFirestore (lines 739-775, 785-788).
HandleRequest(req) ==
    IF req.method = "GET" /\ req.path = "/"
    THEN [kind |-> "respond", resp |-> JsonResponse(200, [asset |-> "index.html"])]
    ELSE IF req.method = "POST" /\ req.path = "/api"
    THEN IF ~req.body.parsed
         THEN [kind |-> "respond",
               resp |-> JsonResponse(400, [error |-> "Invalid JSON"])]
         ELSE IF req.body.value.t \in {"null", "undefined"}
         THEN [kind |-> "throw",
               message |-> "Cannot destructure property of null"]
         ELSE LET destination == Get(req.body.value, "destination")
                  durationDays == Get(req.body.value, "durationDays")
              IN  IF InvalidCreation(destination, durationDays)
                  THEN [kind |-> "respond",
                        resp |-> JsonResponse(400, [error |->
                          "Requires destination (string) and durationDays (positive number)"])]
                  ELSE [kind |-> "create", destination |-> destination,
                        durationDays |-> durationDays]
    ELSE [kind |-> "respond", resp |-> JsonResponse(404, [error |-> "Not Found"])]

\* The record of lines 767-775.
InitialData(destination, durationDays) ==
    [status |-> Str("processing"), destination |-> destination,
     durationDays |-> durationDays, createdAt |-> Timestamp,
     completedAt |-> Null, itinerary |-> Null, error |-> Null]

\* A completed record without its completion time.
CompletedDataNoTimestamp(itinerary) ==
    [status |-> Str("completed"), itinerary |-> itinerary]

\* The record of lines 720-724.
CompletedData(itinerary) ==
    [status |-> Str("completed"), itinerary |-> itinerary, completedAt |-> Timestamp]

\* A catch block that drops the message.
FailedDataNoMessage(message) ==
    [status |-> Str("failed"), error |-> Null, completedAt |-> Timestamp]

\* A catch block that writes a fixed text instead of err.message.
FailedDataFixedMessage(message) ==
    [status |-> Str("failed"), error |-> Str("Generation failed"),
     completedAt |-> Timestamp]

\* The record of lines 726-730.
FailedData(message) ==
    [status |-> Str("failed"), error |-> Str(message), completedAt |-> Timestamp]

\* A writeToFirestore whose catch logs and does not rethrow.
WriteSwallows(outcome) == FALSE

\* A writeToFirestore that throws only when the server refused the PATCH.
WriteThrowsUnlessApplied(outcome) == outcome.thrown # "" /\ ~outcome.applied

\* writeToFirestore throws (lines 618-622) when the call did not end normally.
WriteThrows(outcome) == outcome.thrown # ""

\* A write call that has not returned.
Pending == [applied |-> FALSE, thrown |-> "pending"]

\* The call writeToFirestore(env, jobId, data) appended to a job's write log.
IssueWrite(log, data) ==
    Append(log, [fields |-> formatFirestoreFields(data), outcome |-> Pending])

\* The last call of the log has returned with this outcome.
ReturnWrite(log, outcome) == [log EXCEPT ![Len(log)].outcome = outcome]

(***************************************************************************)
(* State                                                                   *)
(***************************************************************************)
VARIABLES
    hpc,      \* per request: where the fetch handler is
    request,  \* per request: the request received
    resp,     \* per request: the Response returned
    jobId,    \* per request: the id nanoid() gave it (0: none)
    nextId,   \* the next id nanoid() gives
    store,    \* per job id: the Firestore document itineraries/<jobId>
    writes,   \* per job id: the calls of writeToFirestore, in order
    gen,      \* per job id: the task generateItineraryAsync
    probe,    \* one response text and what the fence removal made of it
    page      \* the status page of the frontend (+page.svelte)

vars == <<hpc, request, resp, jobId, nextId, store, writes, gen, probe, page>>

Reqs == 1 .. MaxReqs

\* nanoid() never repeats: the ids are 1, 2, ...
JobIds == 1 .. MaxReqs

\* An id generator that hands out the same id again.
NanoIdRepeats(n) == 1

\* nanoid() (line 766): the n-th call returns the n-th id.
NanoId(n) == n

\* No response text is under study.
NoProbe == [stage |-> "none"]

\* The status page as it is loaded (+page.svelte lines 6-10): an empty input
\* (0 stands for the empty string), the three stores null, no listener.
\* listeners are the documents onSnapshot was called for, pending those
\* whose listener has a snapshot to deliver; tracked is the id of the last
\* Track Job click and shown the id whose snapshot the stores hold.
NoPage ==
    [jobId |-> 0, listening |-> FALSE,
     status |-> Null, itinerary |-> Null, error |-> Null,
     listeners |-> {}, pending |-> {}, tracked |-> 0, shown |-> 0]

NoRequest == [method |-> "", path |-> "", body |-> NotJson]

\* No exception has reached the catch block of generateItineraryAsync.
NoThrow == [stage |-> "", message |-> ""]

\* A task that was never started.  generated is the value JSON.parse
\* returned to the task, once it passed validation (undefined before).
NoGen ==
    [pc |-> "none", retries |-> 0, delay |-> 0, attempts |-> 0,
     delays |-> <<>>, lastErr |-> "", thrown |-> NoThrow, generated |-> Undef]

\* A task that waits before its first attempt.
StartGenerationSleepFirst ==
    [pc |-> "sleep", retries |-> DefaultRetries, delay |-> DefaultDelay,
     attempts |-> 0, delays |-> <<DefaultDelay>>, lastErr |-> "",
     thrown |-> NoThrow, generated |-> Undef]

\* generateItineraryAsync run to its first suspension: the call evaluates
\* retryWithBackoff(fn) with the defaults, which calls fn, and fn calls fetch
\* (lines 647-693, 633-635).
StartGeneration ==
    [pc |-> "fetch", retries |-> DefaultRetries, delay |-> DefaultDelay,
     attempts |-> 1, delays |-> <<>>, lastErr |-> "", thrown |-> NoThrow,
     generated |-> Undef]

\* A backoff that adds the initial delay instead of doubling.
NextDelayLinear(delay) == delay + DefaultDelay

\* delay * 2 of the recursive call (line 639).
NextDelay(delay) == delay * 2

\* throw err (line 637): the error of the attempt that just failed.
PropagatedError(previous, current) == current

Init ==
    /\ hpc = [r \in Reqs |-> "idle"]
    /\ request = [r \in Reqs |-> NoRequest]
    /\ resp = [r \in Reqs |-> NoResponse]
    /\ jobId = [r \in Reqs |-> 0]
    /\ nextId = 1
    /\ store = [j \in JobIds |-> NoDoc]
    /\ writes = [j \in JobIds |-> <<>>]
    /\ gen = [j \in JobIds |-> NoGen]
    /\ probe = NoProbe
    /\ page = NoPage

(***************************************************************************)
(* The fetch handler                                                       *)
(***************************************************************************)
\* fetch(req, env, ctx) up to its return, its throw, or the await of the
\* initial writeToFirestore.  Requests are numbered in the order they arrive.
Receive(r, req) ==
    /\ hpc[r] = "idle"
    /\ \A q \in DOMAIN hpc : q < r => hpc[q] # "idle"
    /\ request' = [request EXCEPT ![r] = req]
    /\ LET h == HandleRequest(req)
       IN  CASE h.kind = "respond" ->
                  /\ hpc' = [hpc EXCEPT ![r] = "responded"]
                  /\ resp' = [resp EXCEPT ![r] = h.resp]
                  /\ UNCHANGED <<jobId, nextId, writes>>
             [] h.kind = "throw" ->
                  /\ hpc' = [hpc EXCEPT ![r] = "threw"]
                  /\ UNCHANGED <<resp, jobId, nextId, writes>>
             [] h.kind = "create" ->
                  /\ hpc' = [hpc EXCEPT ![r] = "awaitWrite"]
                  /\ jobId' = [jobId EXCEPT ![r] = NanoId(nextId)]
                  /\ nextId' = nextId + 1
                  /\ writes' = [writes EXCEPT ![NanoId(nextId)] =
                        IssueWrite(@, InitialData(h.destination, h.durationDays))]
                  /\ UNCHANGED resp
    /\ UNCHANGED <<store, gen, probe, page>>

\* A handler that hands the task to ctx.waitUntil before it awaits the
\* initial write: the task is started whatever the write ends in.
InitialWriteReturnsDispatchFirst(r, outcome) ==
    /\ hpc[r] = "awaitWrite"
    /\ LET j == jobId[r]
       IN  /\ writes' = [writes EXCEPT ![j] = ReturnWrite(@, outcome)]
           /\ store' = IF outcome.applied
                       THEN [store EXCEPT ![j] =
                               PatchDocument(@, writes[j][Len(writes[j])].fields)]
                       ELSE store
           /\ gen' = [gen EXCEPT ![j] = StartGeneration]
           /\ IF WriteThrows(outcome)
              THEN /\ hpc' = [hpc EXCEPT ![r] = "threw"]
                   /\ UNCHANGED resp
              ELSE /\ hpc' = [hpc EXCEPT ![r] = "responded"]
                   /\ resp' = [resp EXCEPT ![r] = JsonResponse(202, [jobId |-> j])]
    /\ UNCHANGED <<request, jobId, nextId, probe, page>>

\* The initial writeToFirestore returns or throws; on a normal return the
\* handler calls generateItineraryAsync, hands its promise to ctx.waitUntil
\* and returns the 202 response (lines 767-782).
InitialWriteReturns(r, outcome) ==
    /\ hpc[r] = "awaitWrite"
    /\ LET j == jobId[r]
       IN  /\ writes' = [writes EXCEPT ![j] = ReturnWrite(@, outcome)]
           /\ store' = IF outcome.applied
                       THEN [store EXCEPT ![j] =
                               PatchDocument(@, writes[j][Len(writes[j])].fields)]
                       ELSE store
           /\ IF WriteThrows(outcome)
              THEN /\ hpc' = [hpc EXCEPT ![r] = "threw"]
                   /\ UNCHANGED <<resp, gen>>
              ELSE /\ gen' = [gen EXCEPT ![j] = StartGeneration]
                   /\ hpc' = [hpc EXCEPT ![r] = "responded"]
                   /\ resp' = [resp EXCEPT ![r] = JsonResponse(202, [jobId |-> j])]
    /\ UNCHANGED <<request, jobId, nextId, probe, page>>

(***************************************************************************)
(* generateItineraryAsync                                                  *)
(***************************************************************************)
\* A task whose parsing and validation sit inside the retried function: a
\* failure of either, with retries left, waits and calls again.
EnterCatchRetrying(j, g, stage, message) ==
    IF stage \in {"body", "parse", "validation"} /\ g.retries > 0
    THEN /\ gen' = [gen EXCEPT ![j] =
                      [g EXCEPT !.pc = "sleep",
                                !.thrown = [stage |-> stage, message |-> message],
                                !.delays = Append(@, g.delay)]]
         /\ UNCHANGED writes
    ELSE /\ gen' = [gen EXCEPT ![j] =
                      [g EXCEPT !.pc = "writeFailed",
                                !.thrown = [stage |-> stage, message |-> message]]]
         /\ writes' = [writes EXCEPT ![j] = IssueWrite(@, FailedData(message))]

\* The catch block (lines 725-730) entered with err: it calls
\* writeToFirestore with the failed record.
EnterCatch(j, g, stage, message) ==
    /\ gen' = [gen EXCEPT ![j] =
                 [g EXCEPT !.pc = "writeFailed",
                           !.thrown = [stage |-> stage, message |-> message]]]
    /\ writes' = [writes EXCEPT ![j] = IssueWrite(@, FailedData(message))]

\* The fetch of one attempt settles.  A rejection with retries left starts
\* the timer; with none left it is thrown to generateItineraryAsync.  A
\* response of any status is returned by retryWithBackoff and processed.
FetchReturns(j, o) ==
    /\ gen[j].pc = "fetch"
    /\ IF o.kind = "reject"
       THEN IF gen[j].retries = 0
            THEN EnterCatch(j, [gen[j] EXCEPT !.lastErr = o.message], "network",
                            PropagatedError(gen[j].lastErr, o.message))
            ELSE /\ gen' = [gen EXCEPT ![j].pc = "sleep",
                                       ![j].lastErr = o.message,
                                       ![j].delays = Append(@, gen[j].delay)]
                 /\ UNCHANGED writes
       ELSE LET p == ProcessResponse(o)
            IN  IF p.ok
                THEN /\ gen' = [gen EXCEPT ![j].pc = "writeCompleted",
                                           ![j].generated = p.generated]
                     /\ writes' = [writes EXCEPT ![j] =
                                     IssueWrite(@, CompletedData(p.itinerary))]
                ELSE EnterCatch(j, gen[j], p.stage, p.message)
    /\ UNCHANGED <<hpc, request, resp, jobId, nextId, store, probe, page>>

\* The timer of line 638 fires: retryWithBackoff(fn, retries - 1, delay * 2)
\* calls fn again.
TimerFires(j) ==
    /\ gen[j].pc = "sleep"
    /\ gen' = [gen EXCEPT ![j].pc = "fetch",
                          ![j].retries = @ - 1,
                          ![j].delay = NextDelay(@),
                          ![j].attempts = @ + 1]
    /\ UNCHANGED <<hpc, request, resp, jobId, nextId, store, writes, probe, page>>

\* The completed write (line 720) returns, or throws into the catch block.
CompletedWriteReturns(j, outcome) ==
    /\ gen[j].pc = "writeCompleted"
    /\ store' = IF outcome.applied
                THEN [store EXCEPT ![j] =
                        PatchDocument(@, writes[j][Len(writes[j])].fields)]
                ELSE store
    /\ IF WriteThrows(outcome)
       THEN /\ gen' = [gen EXCEPT ![j].pc = "writeFailed",
                                  ![j].thrown = [stage |-> "write",
                                                 message |-> outcome.thrown]]
            /\ writes' = [writes EXCEPT ![j] =
                            IssueWrite(ReturnWrite(@, outcome),
                                       FailedData(outcome.thrown))]
       ELSE /\ gen' = [gen EXCEPT ![j].pc = "done"]
            /\ writes' = [writes EXCEPT ![j] = ReturnWrite(@, outcome)]
    /\ UNCHANGED <<hpc, request, resp, jobId, nextId, probe, page>>

\* The failed write of the catch block (line 726) returns, or throws out of
\* generateItineraryAsync: its promise rejects.
FailedWriteReturns(j, outcome) ==
    /\ gen[j].pc = "writeFailed"
    /\ store' = IF outcome.applied
                THEN [store EXCEPT ![j] =
                        PatchDocument(@, writes[j][Len(writes[j])].fields)]
                ELSE store
    /\ writes' = [writes EXCEPT ![j] = ReturnWrite(@, outcome)]
    /\ gen' = [gen EXCEPT ![j].pc = IF WriteThrows(outcome) THEN "rejected" ELSE "done"]
    /\ UNCHANGED <<hpc, request, resp, jobId, nextId, probe, page>>

Next ==
    \/ \E r \in Reqs, req \in Requests : Receive(r, req)
    \/ \E r \in Reqs, outcome \in StoreOutcomes : InitialWriteReturns(r, outcome)
    \/ \E j \in JobIds, o \in GeminiOutcomes : FetchReturns(j, o)
    \/ \E j \in JobIds : TimerFires(j)
    \/ \E j \in JobIds, outcome \in StoreOutcomes : CompletedWriteReturns(j, outcome)
    \/ \E j \in JobIds, outcome \in StoreOutcomes : FailedWriteReturns(j, outcome)

Spec == Init /\ [][Next]_vars

(***************************************************************************)
(* The fence removal on its own                                            *)
(***************************************************************************)
\* The longest response text, in lines.
MaxLines == 4

\* The lines a response text is made of: fences with and without a language
\* tag, JSON documents, prose, blank lines.
ResponseLines ==
    {"<fence>", "<fence>json", "valid", "nokey", "Sorry, I cannot help", ""}

ResponseTexts == UNION {[1 .. n -> ResponseLines] : n \in 0 .. MaxLines}

\* A 200 response whose first candidate holds this text.
TextResponse(lines) ==
    [kind |-> "response", ok |-> TRUE, status |-> 200,
     body |-> [kind |-> "text", lines |-> lines]]

\* Any response text, before the task looks at it.
FenceInit ==
    /\ hpc = [r \in Reqs |-> "idle"]
    /\ request = [r \in Reqs |-> NoRequest]
    /\ resp = [r \in Reqs |-> NoResponse]
    /\ jobId = [r \in Reqs |-> 0]
    /\ nextId = 1
    /\ store = [j \in JobIds |-> NoDoc]
    /\ writes = [j \in JobIds |-> <<>>]
    /\ gen = [j \in JobIds |-> NoGen]
    /\ probe \in {[stage |-> "raw", text |-> t] : t \in ResponseTexts}
    /\ page = NoPage

\* Lines 700-718 applied to the text: rawText is the trimmed text of line
\* 700, handed the argument of JSON.parse (line 713), result what the task
\* does next.
StripAndParse ==
    /\ probe.stage = "raw"
    /\ probe' = [stage |-> "parsed",
                 text |-> probe.text,
                 rawText |-> Trim(probe.text),
                 handed |-> StripFences(Trim(probe.text)),
                 result |-> ProcessResponse(TextResponse(probe.text))]
    /\ UNCHANGED <<hpc, request, resp, jobId, nextId, store, writes, gen, page>>

FenceNext == StripAndParse

FenceSpec == FenceInit /\ [][FenceNext]_vars

(***************************************************************************)
(* Concurrent jobs                                                         *)
(***************************************************************************)
\* The number of creation requests in flight at once.
ConcReqs == 2

\* Every request is a valid creation.
ConcRequest ==
    PostApi(Json(Obj([destination |-> Paris, durationDays |-> Num(3)])))

\* A store call is acknowledged or rejected.
ConcStoreOutcomes ==
    {[applied |-> TRUE, thrown |-> ""],
     [applied |-> FALSE, thrown |-> "Firestore error: 503 - unavailable"]}

\* A generation call is rejected, or answers a valid or an invalid payload.
ConcGeminiOutcomes ==
    {[kind |-> "reject", message |-> "network timeout"]}
    \cup {[kind |-> "response", ok |-> TRUE, status |-> 200,
           body |-> [kind |-> "text", lines |-> l]] :
            l \in {<<"valid">>, <<"badtheme">>}}

ConcInit ==
    /\ hpc = [r \in 1 .. ConcReqs |-> "idle"]
    /\ request = [r \in 1 .. ConcReqs |-> NoRequest]
    /\ resp = [r \in 1 .. ConcReqs |-> NoResponse]
    /\ jobId = [r \in 1 .. ConcReqs |-> 0]
    /\ nextId = 1
    /\ store = [j \in 1 .. ConcReqs |-> NoDoc]
    /\ writes = [j \in 1 .. ConcReqs |-> <<>>]
    /\ gen = [j \in 1 .. ConcReqs |-> NoGen]
    /\ probe = NoProbe
    /\ page = NoPage

\* The handler and the tasks of all the requests, interleaved at their
\* suspension points.
ConcNext ==
    \/ \E r \in 1 .. ConcReqs : Receive(r, ConcRequest)
    \/ \E r \in 1 .. ConcReqs, outcome \in ConcStoreOutcomes :
          InitialWriteReturns(r, outcome)
    \/ \E j \in 1 .. ConcReqs, o \in ConcGeminiOutcomes : FetchReturns(j, o)
    \/ \E j \in 1 .. ConcReqs : TimerFires(j)
    \/ \E j \in 1 .. ConcReqs, outcome \in ConcStoreOutcomes :
          CompletedWriteReturns(j, outcome)
    \/ \E j \in 1 .. ConcReqs, outcome \in ConcStoreOutcomes :
          FailedWriteReturns(j, outcome)

ConcSpec == ConcInit /\ [][ConcNext]_vars

(***************************************************************************)
(* The status page                                                         *)
(***************************************************************************)
\* The number of jobs whose ids the user can type.
PageJobs == 2

PageIds == 1 .. PageJobs

\* docSnap.data()[k]: the value of a stored field (undefined when the
\* document has no such field).
DataField(d, k) ==
    IF k \notin DOMAIN d.fields THEN Undef
    ELSE IF "stringValue" \in DOMAIN d.fields[k] THEN Str(d.fields[k].stringValue)
    ELSE IF "arrayValue" \in DOMAIN d.fields[k]
         THEN [t |-> "array", items |-> d.fields[k].arrayValue]
    ELSE Null

\* v || null
OrNull(v) == IF Falsy(v) THEN Null ELSE v

\* What the snapshot callback (lines 18-29) sets the three stores to.
SnapshotView(d) ==
    IF d # NoDoc
    THEN [status |-> DataField(d, "status"),
          itinerary |-> OrNull(DataField(d, "itinerary")),
          error |-> OrNull(DataField(d, "error"))]
    ELSE [status |-> Null, itinerary |-> Null,
          error |-> Str("No job found with this ID.")]

\* The records the worker writes to a job's document.
PageRecords ==
    {InitialData(Paris, Num(3)),
     CompletedData(Arr(<<StripDay(SampleDay)>>)),
     FailedData(GeminiFailed(503))}

PageInit ==
    /\ hpc = [r \in Reqs |-> "idle"]
    /\ request = [r \in Reqs |-> NoRequest]
    /\ resp = [r \in Reqs |-> NoResponse]
    /\ jobId = [r \in Reqs |-> 0]
    /\ nextId = 1
    /\ store = [j \in PageIds |-> NoDoc]
    /\ writes = [j \in JobIds |-> <<>>]
    /\ gen = [j \in JobIds |-> NoGen]
    /\ probe = NoProbe
    /\ page = NoPage

\* The user edits the input bound to jobId (line 38).
TypeJobId(id) ==
    /\ page.jobId # id
    /\ page' = [page EXCEPT !.jobId = id]
    /\ UNCHANGED <<hpc, request, resp, jobId, nextId, store, writes, gen, probe>>

\* The Track Job button: listenToJob() (lines 12-30) with a non-empty
\* jobId.  onSnapshot registers a listener, which first delivers the
\* document as it is; the function returned by onSnapshot is dropped, so
\* the listeners registered before stay.
listenToJob ==
    /\ page.jobId # 0
    /\ page' = [page EXCEPT !.listening = TRUE,
                            !.listeners = @ \cup {page.jobId},
                            !.pending = @ \cup {page.jobId},
                            !.tracked = page.jobId]
    /\ UNCHANGED <<hpc, request, resp, jobId, nextId, store, writes, gen, probe>>

\* A listener's callback runs with the current document (lines 18-29).
SnapshotArrives(j) ==
    /\ j \in page.pending
    /\ LET view == SnapshotView(store[j])
       IN  page' = [page EXCEPT !.status = view.status,
                                !.itinerary = view.itinerary,
                                !.error = view.error,
                                !.shown = j,
                                !.pending = @ \ {j}]
    /\ UNCHANGED <<hpc, request, resp, jobId, nextId, store, writes, gen, probe>>

\* The worker writes a job's document: the initial record when there is
\* none, a terminal record when it is processing.  Every listener of the
\* document gets a snapshot to deliver.
DocumentChanges(j, data) ==
    /\ \/ DocStatus(store[j]) = "" /\ data.status = Str("processing")
       \/ DocStatus(store[j]) = "processing" /\ data.status # Str("processing")
    /\ store' = [store EXCEPT ![j] = PatchDocument(@, formatFirestoreFields(data))]
    /\ page' = [page EXCEPT !.pending = @ \cup ({j} \cap page.listeners)]
    /\ UNCHANGED <<hpc, request, resp, jobId, nextId, writes, gen, probe>>

PageNext ==
    \/ \E id \in 0 .. PageJobs : TypeJobId(id)
    \/ listenToJob
    \/ \E j \in PageIds : SnapshotArrives(j)
    \/ \E j \in PageIds, data \in PageRecords : DocumentChanges(j, data)

PageSpec == PageInit /\ [][PageNext]_vars

(***************************************************************************)
(* Vocabulary of the properties                                            *)
(***************************************************************************)
\* The status a write call carries.
WriteStatus(w) == w.fields["status"].stringValue

Terminal == {"completed", "failed"}

\* The write call returned normally.
WriteAcknowledged(w) == w.outcome.applied /\ w.outcome.thrown = ""

\* The first write of job j is the processing record and it succeeded.
InitialWriteDone(j) ==
    /\ Len(writes[j]) >= 1
    /\ WriteAcknowledged(writes[j][1])
    /\ WriteStatus(writes[j][1]) = "processing"
    /\ \A k \in {"itinerary", "error", "completedAt"} :
          writes[j][1].fields[k] = [nullValue |-> "null"]

\* Request r is answered 202 with its job id.
Accepted(r) == resp[r].status = 202

BackoffDelays == <<500, 1000, 2000>>

(***************************************************************************)
(* C1.  Original statement: when the 202 response is returned, the job's   *)
(* generation task has made no network attempt, no retry delay and no      *)
(* terminal write.                                                         *)
(***************************************************************************)
C1_NoAttemptBeforeResponse ==
    [][\A r \in Reqs :
         (~Accepted(r) /\ Accepted(r)') =>
            /\ gen'[jobId'[r]].attempts = 0
            /\ gen'[jobId'[r]].delays = <<>>
            /\ Len(writes'[jobId'[r]]) = 1]_vars

(***************************************************************************)
(* C1, amended.  The handler never waits for generation: in the step that  *)
(* returns the 202 response with the jobId, the job's task has issued its  *)
(* first generation request and nothing more (no attempt has settled, no   *)
(* retry delay has started, no terminal write was issued); and a response, *)
(* once returned, is never changed by what generation does later.          *)
(***************************************************************************)
C1_ResponseDoesNotWaitForGeneration ==
    [][\A r \in Reqs :
         /\ (~Accepted(r) /\ Accepted(r)') =>
               /\ resp'[r] = JsonResponse(202, [jobId |-> jobId[r]])
               /\ gen'[jobId[r]].pc = "fetch"
               /\ gen'[jobId[r]].attempts = 1
               /\ gen'[jobId[r]].delays = <<>>
               /\ gen'[jobId[r]].thrown = NoThrow
               /\ Len(writes'[jobId[r]]) = 1
         /\ resp[r] # NoResponse => resp'[r] = resp[r]]_vars

\* A caller holds the 202 response while the first attempt is still pending.
C1_Witness ==
    \E r \in Reqs :
        /\ Accepted(r)
        /\ gen[jobId[r]].pc = "fetch"
        /\ gen[jobId[r]].attempts = 1

(***************************************************************************)
(* C2.  Whenever a request has been answered 202 with a jobId, and         *)
(* whenever the generation task of a job has been dispatched, the initial  *)
(* write of that id (status processing; itinerary, error and completedAt   *)
(* null) has returned successfully, and a document for the id exists.      *)
(***************************************************************************)
C2_InitialWriteBeforeResponse ==
    /\ \A r \in Reqs :
          Accepted(r) =>
             /\ jobId[r] \in JobIds
             /\ resp[r].body = [jobId |-> jobId[r]]
             /\ InitialWriteDone(jobId[r])
             /\ store[jobId[r]] # NoDoc
    /\ \A j \in JobIds :
          gen[j].pc # "none" => InitialWriteDone(j) /\ store[j] # NoDoc

\* An accepted request whose record shows processing with a null itinerary.
C2_Witness ==
    \E r \in Reqs :
        /\ Accepted(r)
        /\ DocStatus(store[jobId[r]]) = "processing"
        /\ ~FieldSet(store[jobId[r]], "itinerary")

(***************************************************************************)
(* C3.  Once a job's document has status completed or failed, no later     *)
(* write changes its status.                                               *)
(***************************************************************************)
C3_StatusForwardOnly ==
    [][\A j \in JobIds :
         DocStatus(store[j]) \in Terminal =>
            DocStatus(store'[j]) = DocStatus(store[j])]_vars

(***************************************************************************)
(* C4.  A job id sees exactly two writes, in order: the processing write,  *)
(* then one terminal write; never a second terminal write.                 *)
(***************************************************************************)
C4_TwoWritesPerJob ==
    \A j \in JobIds :
        /\ Len(writes[j]) <= 2
        /\ Len(writes[j]) >= 1 => WriteStatus(writes[j][1]) = "processing"
        /\ Len(writes[j]) = 2 => WriteStatus(writes[j][2]) \in Terminal

(***************************************************************************)
(* C5.  In every state of every job document, itinerary is non-null iff    *)
(* status is completed, and error is non-null iff status is failed.        *)
(***************************************************************************)
C5_ItineraryXorError ==
    \A j \in JobIds :
        store[j] # NoDoc =>
           /\ FieldSet(store[j], "itinerary") <=> DocStatus(store[j]) = "completed"
           /\ FieldSet(store[j], "error") <=> DocStatus(store[j]) = "failed"

\* A failed document: error set, itinerary not.
C5_Witness ==
    \E j \in JobIds :
        /\ DocStatus(store[j]) = "failed"
        /\ FieldSet(store[j], "error")
        /\ ~FieldSet(store[j], "itinerary")

\* The write calls of job j that carry the status completed.
CompletedWrites(j) ==
    {i \in DOMAIN writes[j] : WriteStatus(writes[j][i]) = "completed"}

\* The last write call of job j is the failed record with this message.
LastWriteIsFailure(j, message) ==
    /\ Len(writes[j]) >= 2
    /\ LET w == writes[j][Len(writes[j])]
       IN  /\ WriteStatus(w) = "failed"
           /\ w.fields["error"] = [stringValue |-> message]
           /\ "stringValue" \in DOMAIN w.fields["completedAt"]

(***************************************************************************)
(* C6.  Any failure of a stage of the background generation (network       *)
(* error, non-success response, malformed response body, JSON parse error, *)
(* schema validation error) is caught by generateItineraryAsync, which     *)
(* then calls the store with status failed, error = the failure's message  *)
(* and completedAt set, for that job; the only exception that leaves the   *)
(* task is a failure of that failed write itself.                          *)
(***************************************************************************)
C6_FailuresBecomeFailedWrites ==
    \A j \in JobIds :
        /\ gen[j].thrown # NoThrow =>
              /\ gen[j].pc \in {"writeFailed", "done", "rejected"}
              /\ gen[j].thrown.message # ""
              /\ LastWriteIsFailure(j, gen[j].thrown.message)
        /\ gen[j].pc = "rejected" =>
              /\ gen[j].thrown # NoThrow
              /\ ~WriteAcknowledged(writes[j][Len(writes[j])])
        /\ gen[j].pc \in {"writeCompleted", "done"} /\ gen[j].thrown = NoThrow =>
              WriteStatus(writes[j][Len(writes[j])]) = "completed"

\* A response without the itinerary key: the record is failed with a
\* validation message and holds no itinerary.
C6_Witness ==
    \E j \in JobIds :
        /\ gen[j].thrown = [stage |-> "validation",
                            message |-> "Validation error: [itinerary]"]
        /\ gen[j].pc = "done"
        /\ DocStatus(store[j]) = "failed"
        /\ store[j].fields["error"] = [stringValue |-> "Validation error: [itinerary]"]
        /\ ~FieldSet(store[j], "itinerary")

(***************************************************************************)
(* C7.  Every job that was created reaches a terminal status when every    *)
(* network call returns: a task that has ended leaves its document         *)
(* completed or failed.                                                    *)
(***************************************************************************)
C7_EndedTaskLeavesTerminalStatus ==
    \A j \in JobIds :
        gen[j].pc \in {"done", "rejected"} => DocStatus(store[j]) \in Terminal

(***************************************************************************)
(* C8.  An attempt that ends with a non-success response is retried like   *)
(* one that ends with a network error: the task gives up on a non-success  *)
(* response only after 1 + 3 attempts.                                     *)
(***************************************************************************)
C8_NonSuccessResponseIsRetried ==
    \A j \in JobIds :
        gen[j].thrown.stage = "status" => gen[j].attempts = DefaultRetries + 1

(***************************************************************************)
(* C9.  At most 4 attempts per job; one delay before each retry, the       *)
(* delays being 500, 1000, 2000 ms in that order; three failed attempts    *)
(* and a successful fourth give exactly 3 delays and then the completed    *)
(* write; four failed attempts give the failed write carrying the last     *)
(* attempt's error, no completed write and no fifth attempt.               *)
(***************************************************************************)
C9_BoundedBackoff ==
    \A j \in JobIds :
        LET g == gen[j]
        IN  /\ g.attempts <= 4
            /\ Len(g.delays) <= 3
            /\ g.delays = SubSeq(BackoffDelays, 1, Len(g.delays))
            /\ g.pc # "none" =>
                  Len(g.delays) = IF g.pc = "sleep" THEN g.attempts ELSE g.attempts - 1
            /\ g.attempts = 4 /\ g.pc = "writeCompleted" =>
                  /\ g.delays = BackoffDelays
                  /\ Len(writes[j]) = 2
                  /\ WriteStatus(writes[j][2]) = "completed"
            /\ g.thrown.stage = "network" =>
                  /\ g.attempts = 4
                  /\ g.delays = BackoffDelays
                  /\ g.thrown.message = g.lastErr
                  /\ LastWriteIsFailure(j, g.lastErr)
                  /\ CompletedWrites(j) = {}
                  /\ g.pc = "done" =>
                        /\ DocStatus(store[j]) = "failed"
                        /\ store[j].fields["error"] = [stringValue |-> g.lastErr]
            /\ g.attempts = 4 /\ g.pc = "done" /\ g.thrown = NoThrow =>
                  /\ g.delays = BackoffDelays
                  /\ DocStatus(store[j]) = "completed"

\* Three rejected attempts, a fourth that succeeds, and a completed document.
C9_Witness ==
    \E j \in JobIds :
        /\ gen[j].attempts = 4
        /\ gen[j].delays = BackoffDelays
        /\ gen[j].lastErr # ""
        /\ gen[j].pc = "done"
        /\ DocStatus(store[j]) = "completed"

\* destination is a non-empty string and durationDays a positive number.
WellFormedCreation(v) ==
    /\ Get(v, "destination").t = "string"
    /\ Get(v, "destination").s # ""
    /\ Get(v, "durationDays").t = "number"
    /\ ~LeqZero(Get(v, "durationDays"))

(***************************************************************************)
(* C10.  A creation request whose destination is not a non-empty string or *)
(* whose durationDays is not a positive number is answered 400 and causes  *)
(* no store write and no task; so every initial record has a non-empty     *)
(* string destination and a positive integer durationDays.                 *)
(***************************************************************************)
C10_InvalidCreationRejected ==
    /\ \A r \in Reqs :
          (/\ hpc[r] # "idle"
           /\ request[r].method = "POST" /\ request[r].path = "/api"
           /\ request[r].body.parsed
           /\ request[r].body.value.t = "object"
           /\ ~WellFormedCreation(request[r].body.value)) =>
              /\ resp[r].status = 400
              /\ jobId[r] = 0
    /\ \A j \in JobIds :
          Len(writes[j]) >= 1 =>
             /\ "stringValue" \in DOMAIN writes[j][1].fields["destination"]
             /\ "integerValue" \in DOMAIN writes[j][1].fields["durationDays"]

\* The request is a POST /api whose body does not describe a creation: it is
\* not JSON, or JSON that is not an object, or an object whose destination
\* or durationDays is missing or invalid.
Malformed(req) ==
    /\ req.method = "POST" /\ req.path = "/api"
    /\ \/ ~req.body.parsed
       \/ req.body.value.t # "object"
       \/ ~WellFormedCreation(req.body.value)

(***************************************************************************)
(* C11.  Every malformed POST /api (a body that is not JSON, valid JSON    *)
(* that is not an object such as null, missing or invalid fields) is       *)
(* answered 400 with an object holding an error message: the handler never *)
(* ends in an uncaught exception on such a request.                        *)
(***************************************************************************)
C11_MalformedAnswered400 ==
    \A r \in Reqs :
        (hpc[r] # "idle" /\ Malformed(request[r])) =>
            /\ hpc[r] = "responded"
            /\ resp[r].status = 400
            /\ DOMAIN resp[r].body = {"error"}

\* One activity of a parsed payload as a Firestore value: the three keys of
\* the schema and no other.
StoredActivity(a) ==
    [mapValue |-> [time |-> [stringValue |-> Get(a, "time").s],
                   description |-> [stringValue |-> Get(a, "description").s],
                   location |-> [stringValue |-> Get(a, "location").s]]]

\* One day of a parsed payload as a Firestore value.
StoredDay(d) ==
    [mapValue |->
        [day |-> [integerValue |-> Get(d, "day")],
         theme |-> [stringValue |-> Get(d, "theme").s],
         activities |-> [arrayValue |->
            [i \in DOMAIN Get(d, "activities").items |->
                StoredActivity(Get(d, "activities").items[i])]]]]

\* The itinerary of a parsed payload as a Firestore value.
StoredItinerary(payload) ==
    [arrayValue |-> [i \in DOMAIN Get(payload, "itinerary").items |->
                        StoredDay(Get(payload, "itinerary").items[i])]]

(***************************************************************************)
(* C12.  A completed write is issued only after the generation response    *)
(* was parsed as JSON and passed the schema, and the itinerary it carries, *)
(* like the itinerary of every completed document, is exactly the          *)
(* itinerary of that validated payload.                                    *)
(***************************************************************************)
C12_CompletedOnlyValidated ==
    \A j \in JobIds :
        /\ \A i \in 1 .. Len(writes[j]) :
              WriteStatus(writes[j][i]) = "completed" =>
                 /\ gen[j].generated # Undef
                 /\ SchemaIssues(gen[j].generated) = <<>>
                 /\ writes[j][i].fields["itinerary"] =
                       StoredItinerary(gen[j].generated)
        /\ DocStatus(store[j]) = "completed" =>
              /\ gen[j].generated # Undef
              /\ store[j].fields["itinerary"] = StoredItinerary(gen[j].generated)

\* A completed document holds the days and activities of a payload that had
\* keys the schema does not name.
C12_Witness ==
    \E j \in JobIds :
        /\ DocStatus(store[j]) = "completed"
        /\ gen[j].generated = JsonDocs["loose"]
        /\ Len(store[j].fields["itinerary"].arrayValue) = 1
        /\ DOMAIN store[j].fields["itinerary"].arrayValue[1].mapValue
              .activities.arrayValue[1].mapValue
              = {"time", "description", "location"}

\* The fields of a write call or of a document hold a completion time.
HasCompletionTime(fields) ==
    /\ "completedAt" \in DOMAIN fields
    /\ "stringValue" \in DOMAIN fields["completedAt"]

\* The fields hold completedAt = null.
NullCompletionTime(fields) ==
    /\ "completedAt" \in DOMAIN fields
    /\ fields["completedAt"] = [nullValue |-> "null"]

(***************************************************************************)
(* C13.  completedAt is null while a job is processing and non-null once   *)
(* it is terminal, and it is set by the write that makes the status        *)
(* terminal: the processing write carries completedAt = null, every        *)
(* completed or failed write carries a completion time, and the same holds *)
(* of the stored document in every state.                                  *)
(***************************************************************************)
C13_CompletedAtFollowsStatus ==
    \A j \in JobIds :
        /\ \A i \in 1 .. Len(writes[j]) :
              /\ WriteStatus(writes[j][i]) = "processing" =>
                    NullCompletionTime(writes[j][i].fields)
              /\ WriteStatus(writes[j][i]) \in Terminal =>
                    HasCompletionTime(writes[j][i].fields)
        /\ DocStatus(store[j]) = "processing" =>
              NullCompletionTime(store[j].fields)
        /\ DocStatus(store[j]) \in Terminal =>
              HasCompletionTime(store[j].fields)

\* A document that was stored as processing with completedAt = null is
\* completed and holds a completion time.
C13_Witness ==
    \E j \in JobIds :
        /\ InitialWriteDone(j)
        /\ DocStatus(store[j]) = "completed"
        /\ HasCompletionTime(store[j].fields)

\* The fields the creation wrote and no terminal write names.
CreationFields == {"destination", "durationDays", "createdAt"}

(***************************************************************************)
(* C14.  A terminal write changes only status, completedAt and itinerary   *)
(* or error: once the initial write was stored, the document of a terminal *)
(* job still holds destination, durationDays and createdAt, with the       *)
(* values the initial write gave them.                                     *)
(***************************************************************************)
C14_TerminalWriteKeepsCreationFields ==
    \A j \in JobIds :
        (/\ InitialWriteDone(j)
         /\ DocStatus(store[j]) \in Terminal) =>
            \A k \in CreationFields :
                /\ k \in DOMAIN store[j].fields
                /\ store[j].fields[k] = writes[j][1].fields[k]

\* The days of the itinerary a document holds.
StoredDays(d) == d.fields["itinerary"].arrayValue

\* Field k of a stored map is a string.
StoredString(m, k) == k \in DOMAIN m /\ "stringValue" \in DOMAIN m[k]

\* Field k of a stored map is a string that is not empty.
StoredNonEmpty(m, k) == StoredString(m, k) /\ m[k].stringValue # ""

\* Field k of a stored map is an integer.
StoredInteger(m, k) ==
    /\ k \in DOMAIN m
    /\ "integerValue" \in DOMAIN m[k]
    /\ ~m[k].integerValue.half

\* The activities of a stored day.
StoredActivities(m) ==
    IF "activities" \in DOMAIN m /\ "arrayValue" \in DOMAIN m["activities"]
    THEN m["activities"].arrayValue ELSE <<>>

(***************************************************************************)
(* C15.  Original statement: every day of a completed job's itinerary has  *)
(* a day number that is a positive integer and a non-empty theme, and      *)
(* every activity has a non-empty description and a non-empty location.    *)
(***************************************************************************)
C15_DaysPositiveAndTextsNonEmpty ==
    \A j \in JobIds :
        DocStatus(store[j]) = "completed" =>
            \A i \in DOMAIN StoredDays(store[j]) :
                LET m == StoredDays(store[j])[i].mapValue
                IN  /\ StoredInteger(m, "day")
                    /\ m["day"].integerValue.n > 0
                    /\ StoredNonEmpty(m, "theme")
                    /\ \A a \in DOMAIN StoredActivities(m) :
                          /\ StoredNonEmpty(StoredActivities(m)[a].mapValue,
                                            "description")
                          /\ StoredNonEmpty(StoredActivities(m)[a].mapValue,
                                            "location")

(***************************************************************************)
(* C15, amended.  Every day of a completed job's itinerary has a day       *)
(* number that is an integer (of any sign) and a theme that is a string,   *)
(* its activities are an array, and every activity has a time, a           *)
(* description and a location that are strings; the strings may be empty.  *)
(***************************************************************************)
C15_DaysWellTyped ==
    \A j \in JobIds :
        DocStatus(store[j]) = "completed" =>
            \A i \in DOMAIN StoredDays(store[j]) :
                LET m == StoredDays(store[j])[i].mapValue
                IN  /\ StoredInteger(m, "day")
                    /\ StoredString(m, "theme")
                    /\ "activities" \in DOMAIN m
                    /\ "arrayValue" \in DOMAIN m["activities"]
                    /\ \A a \in DOMAIN StoredActivities(m) :
                          \A k \in {"time", "description", "location"} :
                              StoredString(StoredActivities(m)[a].mapValue, k)

\* A completed document holds a day numbered 0 with an empty theme and an
\* activity whose description and location are empty.
C15_Witness ==
    \E j \in JobIds :
        /\ DocStatus(store[j]) = "completed"
        /\ \E i \in DOMAIN StoredDays(store[j]) :
              LET m == StoredDays(store[j])[i].mapValue
              IN  /\ m["day"].integerValue.n = 0
                  /\ m["theme"].stringValue = ""
                  /\ StoredActivities(m)[1].mapValue["description"].stringValue = ""
                  /\ StoredActivities(m)[1].mapValue["location"].stringValue = ""

\* The stages at which a returned response is found unusable: reading the
\* response body, parsing the text, validating the payload.
ResponseStages == {"body", "parse", "validation"}

\* The task of job j has left its try block for good.
TaskPastGeneration(g) == g.pc \in {"writeFailed", "done", "rejected"}

(***************************************************************************)
(* C16.  Parse and validation failures are single-shot.  In the step in    *)
(* which a returned response fails JSON parsing or schema validation the   *)
(* failed write carrying that error is issued, with no retry delay added;  *)
(* and from then on the generation capability is not called again for the  *)
(* job: the number of attempts and the delays never change.                *)
(***************************************************************************)
C16_ParseFailuresSingleShot ==
    [][\A j \in JobIds :
         /\ (gen[j].thrown.stage \notin ResponseStages
             /\ gen'[j].thrown.stage \in ResponseStages) =>
               /\ gen'[j].pc = "writeFailed"
               /\ gen'[j].attempts = gen[j].attempts
               /\ gen'[j].delays = gen[j].delays
               /\ Len(writes'[j]) = Len(writes[j]) + 1
               /\ writes'[j][Len(writes'[j])].fields["error"] =
                     [stringValue |-> gen'[j].thrown.message]
               /\ WriteStatus(writes'[j][Len(writes'[j])]) = "failed"
         /\ gen[j].thrown.stage \in ResponseStages =>
               /\ TaskPastGeneration(gen'[j])
               /\ gen'[j].attempts = gen[j].attempts
               /\ gen'[j].delays = gen[j].delays]_vars

\* A payload failed validation on the first attempt, with all three retries
\* left, and the job is failed after that one attempt.
C16_Witness ==
    \E j \in JobIds :
        /\ gen[j].thrown.stage = "validation"
        /\ gen[j].attempts = 1
        /\ gen[j].retries = DefaultRetries
        /\ gen[j].delays = <<>>
        /\ gen[j].pc = "done"
        /\ DocStatus(store[j]) = "failed"

\* The task of job j was just started by this step.
TaskStarts(j) == gen'[j] = StartGeneration /\ gen[j] # StartGeneration

(***************************************************************************)
(* C17.  With any number of jobs in flight at once: no two requests get    *)
(* the same job id and a job's task is started once, so each job id has    *)
(* exactly one task; a step that writes (issues a write for a job, or      *)
(* changes a job's document) does so for one job only, the document        *)
(* becomes what that job's own last write call carried, and the write log, *)
(* the document and the task of every other job are left as they were.     *)
(***************************************************************************)
C17_JobsAreIsolated ==
    [][/\ \A r1, r2 \in DOMAIN jobId :
             (r1 # r2 /\ jobId'[r1] # 0) => jobId'[r1] # jobId'[r2]
       /\ \A j \in DOMAIN gen :
             /\ TaskStarts(j) =>
                   /\ gen[j] = NoGen
                   /\ \E r \in DOMAIN jobId : jobId[r] = j /\ hpc[r] = "awaitWrite"
             /\ store'[j] # store[j] =>
                   /\ writes[j] # <<>>
                   /\ store'[j] = [fields |-> writes[j][Len(writes[j])].fields]
             /\ (store'[j] # store[j] \/ writes'[j] # writes[j]) =>
                   \A k \in DOMAIN gen \ {j} :
                       /\ store'[k] = store[k]
                       /\ writes'[k] = writes[k]
                       /\ gen'[k] = gen[k]]_vars

\* Two jobs ran side by side and ended differently: one document is
\* completed and the other failed, each written by its own task.
C17_Witness ==
    \E j, k \in DOMAIN gen :
        /\ j # k
        /\ gen[j].pc = "done" /\ gen[k].pc = "done"
        /\ DocStatus(store[j]) = "completed"
        /\ DocStatus(store[k]) = "failed"
        /\ Len(writes[j]) = 2 /\ Len(writes[k]) = 2

(***************************************************************************)
(* C18.  Fence removal, on the response text as line 700 trims it.  When   *)
(* its first and last lines are fence lines and it has at least three      *)
(* lines, the text handed to the JSON parser is the enclosed content,      *)
(* trimmed, and the task does with it what it does with that content sent  *)
(* without fences.  A text that does not start with a fence is handed to   *)
(* the parser unchanged, and so is a text that starts with a fence and has *)
(* fewer than three lines.                                                 *)
(***************************************************************************)
C18_FencesRemoved ==
    probe.stage = "parsed" =>
        LET raw == probe.rawText
            n == Len(raw)
        IN  /\ (n >= 3 /\ raw[1] \in FenceLines /\ raw[n] \in FenceLines) =>
                  LET content == Trim(SubSeq(raw, 2, n - 1))
                  IN  /\ probe.handed = content
                      /\ (content = <<>> \/ content[1] \notin FenceLines) =>
                            probe.result = ProcessResponse(TextResponse(content))
            /\ (n = 0 \/ raw[1] \notin FenceLines) => probe.handed = raw
            /\ (n \in {1, 2} /\ raw[1] \in FenceLines) => probe.handed = raw

\* A valid payload between a tagged opening fence and a closing fence, with
\* a blank line inside, is handed to the parser bare and accepted.
C18_Witness ==
    /\ probe.stage = "parsed"
    /\ probe.text = <<"<fence>json", "valid", "", "<fence>">>
    /\ probe.handed = <<"valid">>
    /\ probe.result.ok

\* The write call has returned by throwing.
WriteFailed(w) == w.outcome # Pending /\ w.outcome.thrown # ""

(***************************************************************************)
(* C19.  Original statement: a store-write failure at the terminal step    *)
(* is only logged; no exception leaves generateItineraryAsync, which       *)
(* always ends normally, whether the write that fails is the completed     *)
(* write or the failed write.                                              *)
(***************************************************************************)
C19_NoExceptionLeavesTheTask ==
    \A j \in JobIds :
        (\E i \in 1 .. Len(writes[j]) :
            WriteStatus(writes[j][i]) \in Terminal /\ WriteFailed(writes[j][i]))
        => gen[j].pc # "rejected"

(***************************************************************************)
(* C19, amended.  A failure of the completed write does not leave the      *)
(* task: it is caught and the failed write carrying its message is issued  *)
(* next.  A failure of the failed write does leave it: the task's promise  *)
(* rejects exactly when its failed write threw, and this happens only      *)
(* after the 202 response of the job was returned.                         *)
(***************************************************************************)
C19_OnlyFailedWriteFailureLeavesTheTask ==
    \A j \in JobIds :
        /\ gen[j].pc = "rejected" <=>
              /\ writes[j] # <<>>
              /\ WriteStatus(writes[j][Len(writes[j])]) = "failed"
              /\ WriteFailed(writes[j][Len(writes[j])])
        /\ \A i \in 1 .. Len(writes[j]) :
              (WriteStatus(writes[j][i]) = "completed" /\ WriteFailed(writes[j][i])) =>
                 /\ i < Len(writes[j])
                 /\ WriteStatus(writes[j][i + 1]) = "failed"
                 /\ writes[j][i + 1].fields["error"] =
                       [stringValue |-> writes[j][i].outcome.thrown]
        /\ gen[j].pc = "rejected" =>
              \E r \in Reqs : jobId[r] = j /\ Accepted(r)

\* The completed write threw and was caught, and then the failed write
\* threw too: the task's promise is rejected.
C19_Witness ==
    \E j \in JobIds :
        /\ gen[j].pc = "rejected"
        /\ Len(writes[j]) = 3
        /\ WriteStatus(writes[j][2]) = "completed"
        /\ WriteFailed(writes[j][2])
        /\ WriteFailed(writes[j][3])

\* Whoever called the writes of job j has finished: the handler threw, or
\* the task ended.
WritersEnded(j) ==
    \/ gen[j].pc \in {"done", "rejected"}
    \/ \E r \in Reqs : jobId[r] = j /\ hpc[r] = "threw"

(***************************************************************************)
(* C20.  A failed document update is retried: once the callers of a job's  *)
(* writes have finished, every call of writeToFirestore that failed was    *)
(* followed by another call carrying the same fields.                      *)
(***************************************************************************)
C20_FailedWriteIsRetried ==
    \A j \in JobIds :
        WritersEnded(j) =>
            \A i \in 1 .. Len(writes[j]) :
                WriteFailed(writes[j][i]) =>
                    /\ i < Len(writes[j])
                    /\ writes[j][i + 1].fields = writes[j][i].fields

\* Request r got a job id (its initial write was issued).
Created(r) == jobId[r] # 0

(***************************************************************************)
(* C21.  When the initial processing write of a creation request fails,    *)
(* the handler returns no 202 response and no jobId and starts no          *)
(* generation task for the id, in the step in which the write fails and    *)
(* ever after, and no further write is issued for the id; and in the step  *)
(* that starts a job's task the initial write has returned normally.       *)
(***************************************************************************)
C21_NoTaskWithoutInitialWrite ==
    [][\A r \in Reqs :
         Created(r) =>
            LET j == jobId[r]
            IN  /\ WriteFailed(writes'[j][1]) =>
                      /\ hpc'[r] = "threw"
                      /\ resp'[r] = NoResponse
                      /\ gen'[j] = NoGen
                      /\ Len(writes'[j]) = 1
                /\ (gen[j] = NoGen /\ gen'[j] # NoGen) =>
                      /\ writes[j][1].outcome = Pending
                      /\ writes'[j][1].outcome.thrown = ""
                      /\ Accepted(r)']_vars

\* Firestore refused the initial write: the handler ended in an exception,
\* no response was returned, no document exists and no task was started.
C21_Witness ==
    \E r \in Reqs :
        /\ Created(r)
        /\ WriteFailed(writes[jobId[r]][1])
        /\ ~writes[jobId[r]][1].outcome.applied
        /\ hpc[r] = "threw"
        /\ resp[r] = NoResponse
        /\ gen[jobId[r]] = NoGen
        /\ store[jobId[r]] = NoDoc

\* What the page displays: the values of its three stores.
Displayed(p) == <<p.status, p.itinerary, p.error>>

(***************************************************************************)
(* C22.  On the status page, whatever is displayed belongs to the job      *)
(* tracked last: every step that sets the displayed status, itinerary and  *)
(* error sets them from the document of the most recently tracked job id,  *)
(* so a snapshot of a job tracked earlier never overwrites them.           *)
(***************************************************************************)
C22_DisplayFollowsLastTracked ==
    [][(Displayed(page') # Displayed(page) \/ page'.shown # page.shown) =>
          /\ page'.shown = page'.tracked
          /\ Displayed(page') =
                LET view == SnapshotView(store'[page'.tracked])
                IN  <<view.status, view.itinerary, view.error>>]_vars

====
